---- MODULE Spec2Model ----
(***************************************************************************)
(* Product Store Service: the HTTP route layer of service/routes.py over   *)
(* the Product entity and its data-access layer (service/models.py).       *)
(*                                                                         *)
(* Text values are sequences of one-character strings, so that upper(),    *)
(* lower(), Decimal(str) and str(Decimal) are computed character by        *)
(* character.  An optional value (a header, a query parameter, an entity's *)
(* id) is a sequence of length at most one: None is << >>.                 *)
(***************************************************************************)
EXTENDS Integers, Sequences, FiniteSets, TLC

VARIABLES
    store,    \* the product table: a set of rows
    nextId,   \* the table's id sequence: the id the next insert gets
    created,  \* the ids returned by the successful creates, in order
    written,  \* per stored id: the payload of the last successful write (create or update)
    last      \* the last request, its response, and the table before it

vars == <<store, nextId, created, written, last>>

\* The number of inserts a run makes (caps the id sequence).
MaxCreates == 3

None == << >>
Some(v) == <<v>>

----------------------------------------------------------------------------
(* Text *)

LowerChars == <<"a","b","c","d","e","f","g","h","i","j","k","l","m",
                "n","o","p","q","r","s","t","u","v","w","x","y","z">>
UpperChars == <<"A","B","C","D","E","F","G","H","I","J","K","L","M",
                "N","O","P","Q","R","S","T","U","V","W","X","Y","Z">>
DigitChars == <<"0","1","2","3","4","5","6","7","8","9">>

Occurs(c, tbl) == \E i \in DOMAIN tbl : tbl[i] = c
IndexOf(c, tbl) == CHOOSE i \in DOMAIN tbl : tbl[i] = c

\* str.upper() and str.lower()
str_upper(s) ==
    [i \in DOMAIN s |->
        IF Occurs(s[i], LowerChars) THEN UpperChars[IndexOf(s[i], LowerChars)]
        ELSE s[i]]
str_lower(s) ==
    [i \in DOMAIN s |->
        IF Occurs(s[i], UpperChars) THEN LowerChars[IndexOf(s[i], UpperChars)]
        ELSE s[i]]

----------------------------------------------------------------------------
(* Decimal: the value c * 10^(-e) *)

RECURSIVE Pow10(_)
Pow10(n) == IF n = 0 THEN 1 ELSE 10 * Pow10(n - 1)

RECURSIVE DigitsToNat(_)
DigitsToNat(ds) ==
    IF ds = << >> THEN 0
    ELSE 10 * DigitsToNat(SubSeq(ds, 1, Len(ds) - 1))
         + (IndexOf(ds[Len(ds)], DigitChars) - 1)

RECURSIVE NatToDigits(_)
NatToDigits(n) ==
    IF n < 10 THEN <<DigitChars[n + 1]>>
    ELSE NatToDigits(n \div 10) \o <<DigitChars[(n % 10) + 1]>>

RECURSIVE ZeroPad(_, _)
ZeroPad(ds, width) == IF Len(ds) >= width THEN ds ELSE ZeroPad(<<"0">> \o ds, width)

IsDigit(c) == Occurs(c, DigitChars)

\* Decimal(text): digits with at most one point; anything else is invalid.
DecimalOf(s) ==
    LET dots   == {i \in DOMAIN s : s[i] = "."}
        digits == SelectSeq(s, IsDigit)
    IN  IF /\ \A i \in DOMAIN s : IsDigit(s[i]) \/ s[i] = "."
           /\ Cardinality(dots) <= 1
           /\ digits # << >>
        THEN [ok |-> TRUE,
              c  |-> DigitsToNat(digits),
              e  |-> IF dots = {} THEN 0 ELSE Len(s) - (CHOOSE i \in dots : TRUE)]
        ELSE [ok |-> FALSE, c |-> 0, e |-> 0]

\* str(decimal)
DecimalStr(d) ==
    LET ds == ZeroPad(NatToDigits(d.c), d.e + 1)
    IN  IF d.e = 0 THEN ds
        ELSE SubSeq(ds, 1, Len(ds) - d.e) \o <<".">> \o SubSeq(ds, Len(ds) - d.e + 1, Len(ds))

\* decimal == decimal: numeric, whatever the exponents
DecimalEq(a, b) == a.c * Pow10(b.e) = b.c * Pow10(a.e)

----------------------------------------------------------------------------
(* Category: a member is identified by its name *)

Category == { <<"U","N","K","N","O","W","N">>,
              <<"C","L","O","T","H","S">>,
              <<"F","O","O","D">>,
              <<"H","O","U","S","E","W","A","R","E","S">>,
              <<"A","U","T","O","M","O","T","I","V","E">>,
              <<"T","O","O","L","S">> }

\* getattr(Category, name): the member, or AttributeError
getattr_Category(name) ==
    IF name \in Category THEN [ok |-> TRUE, value |-> name]
    ELSE [ok |-> FALSE, value |-> name]

----------------------------------------------------------------------------
(* str_to_bool *)

bool_true  == { <<"t","r","u","e">>, <<"1">>, <<"t">>, <<"y">>, <<"y","e","s">> }
bool_false == { <<"f","a","l","s","e">>, <<"0">>, <<"f">>, <<"n">>, <<"n","o">> }

str_to_bool(str_value) ==
    LET k == str_lower(str_value)
    IN  IF k \in bool_true THEN [ok |-> TRUE, value |-> TRUE]
        ELSE IF k \in bool_false THEN [ok |-> TRUE, value |-> FALSE]
        ELSE [ok |-> FALSE, value |-> FALSE]

----------------------------------------------------------------------------
(* Product: the entity and its data-access layer *)

\* Product(): a transient entity, not yet persisted
NewProduct ==
    [id |-> None, name |-> << >>, description |-> << >>,
     price |-> [c |-> 0, e |-> 0], available |-> FALSE,
     category |-> <<"U","N","K","N","O","W","N">>]

\* The table row of a persisted entity, and the entity of a row
RowOf(product) ==
    [id |-> product.id[1], name |-> product.name,
     description |-> product.description, price |-> product.price,
     available |-> product.available, category |-> product.category]
EntityOf(row) == [row EXCEPT !.id = Some(row.id)]

\* isinstance(value, bool) on a JSON literal
IsJsonBool(lit) == lit \in {"true", "false"}

\* Product.deserialize(data): the populated entity, or DataValidationError
\* naming the offending field.  The id of the entity is not touched.
deserialize(product, data) ==
    LET keys == DOMAIN data
        bad(f) == [ok |-> FALSE, field |-> f, product |-> product]
    IN  IF "name" \notin keys THEN bad("name")
        ELSE IF "description" \notin keys THEN bad("description")
        ELSE IF "price" \notin keys THEN bad("price")
        ELSE IF ~DecimalOf(data.price).ok THEN bad("price")
        ELSE IF "available" \notin keys THEN bad("available")
        ELSE IF ~IsJsonBool(data.available) THEN bad("available")
        ELSE IF "category" \in keys /\ ~getattr_Category(str_upper(data.category)).ok
             THEN bad("category")
        ELSE [ok |-> TRUE, field |-> "",
              product |->
                [id |-> product.id,
                 name |-> data.name,
                 description |-> data.description,
                 price |-> [c |-> DecimalOf(data.price).c, e |-> DecimalOf(data.price).e],
                 available |-> (data.available = "true"),
                 category |-> IF "category" \in keys
                              THEN getattr_Category(str_upper(data.category)).value
                              ELSE <<"U","N","K","N","O","W","N">>]]

\* Product.serialize()
serialize(product) ==
    [id |-> product.id, name |-> product.name,
     description |-> product.description,
     price |-> DecimalStr(product.price),
     available |-> product.available,
     category |-> product.category]

\* Product.create(): insert a row under a fresh id, which the entity gets
Product_create(product, st, nid) ==
    LET p == [product EXCEPT !.id = Some(nid)]
    IN  [product |-> p, store |-> st \cup {RowOf(p)}, nextId |-> nid + 1]

\* not self.id
IsEmptyId(oid) == oid = None \/ oid[1] = 0

\* Product.update() without the check of the id
Product_update_unchecked(product, st) ==
    [raised |-> FALSE,
     store |-> IF IsEmptyId(product.id) THEN st
               ELSE {IF r.id = product.id[1] THEN RowOf(product) ELSE r : r \in st}]

\* Product.update(): DataValidationError on an empty id, else the row with
\* the entity's id gets the entity's fields
Product_update(product, st) ==
    IF IsEmptyId(product.id)
    THEN [raised |-> TRUE, store |-> st]
    ELSE [raised |-> FALSE,
          store |-> {IF r.id = product.id[1] THEN RowOf(product) ELSE r : r \in st}]

\* Product.delete(): remove the row with the entity's id
Product_delete(product, st) == {r \in st : r.id # product.id[1]}

\* Product.all()
all(st) == {EntityOf(r) : r \in st}

\* Product.find(product_id): the entity, or None
find(st, product_id) ==
    IF \E r \in st : r.id = product_id
    THEN Some(EntityOf(CHOOSE r \in st : r.id = product_id))
    ELSE None

\* find_by_name matching whatever the case
find_by_name_ignore_case(st, name) ==
    {EntityOf(r) : r \in {x \in st : str_lower(x.name) = str_lower(name)}}

find_by_name(st, name) == {EntityOf(r) : r \in {x \in st : x.name = name}}
find_by_category(st, category) == {EntityOf(r) : r \in {x \in st : x.category = category}}
find_by_availability(st, available) == {EntityOf(r) : r \in {x \in st : x.available = available}}

\* price is a decimal, or text that is made a decimal first
find_by_price(st, price) ==
    LET d == IF price.isStr THEN DecimalOf(price.text) ELSE price.dec
    IN  {EntityOf(r) : r \in {x \in st : DecimalEq(x.price, d)}}

----------------------------------------------------------------------------
(* The route layer.  A handler yields the response (status, body, Location *)
(* header), how far it got (parsed: request.get_json() was reached;        *)
(* queried: the store was read), and the store it leaves.                  *)

JSON == "application/json"

Response(status, body, location, parsed, queried, st, nid) ==
    [status |-> status, body |-> body, location |-> location,
     parsed |-> parsed, queried |-> queried, store |-> st, nextId |-> nid]

\* abort(404, f"Product Id not found {product_id}")
NotFound(product_id, st, nid) ==
    Response(404, [message |-> "Product Id not found", id |-> product_id],
             None, FALSE, TRUE, st, nid)

\* abort(415, f"Content-Type must be {content_type}")
UnsupportedMediaType(content_type, st, nid) ==
    Response(415, [message |-> "Content-Type must be", content_type |-> content_type],
             None, FALSE, FALSE, st, nid)

\* DataValidationError out of a handler: a 400 response naming the field
BadRequest(field, queried, st, nid) ==
    Response(400, [message |-> "Invalid product", field |-> field],
             None, TRUE, queried, st, nid)

\* an exception no handler catches: AttributeError, ValueError
ServerError(error, st, nid) ==
    Response(500, [message |-> error], None, FALSE, FALSE, st, nid)

\* check_content_type accepting any header value that starts with the type
check_content_type_prefix(headers, content_type) ==
    headers # None /\ headers[1] \in {content_type, "application/json; charset=utf-8"}

\* check_content_type(content_type): TRUE when it returns, FALSE when it aborts
check_content_type(headers, content_type) ==
    IF headers = None THEN FALSE
    ELSE IF headers[1] = content_type THEN TRUE
    ELSE FALSE

\* create_products calling product.create() a second time
create_products_twice(req, st, nid) ==
    IF ~check_content_type(req.ctype, JSON) THEN UnsupportedMediaType(JSON, st, nid)
    ELSE LET d == deserialize(NewProduct, req.data)
         IN  IF ~d.ok THEN BadRequest(d.field, FALSE, st, nid)
             ELSE LET c1 == Product_create(d.product, st, nid)
                      c  == Product_create(c1.product, c1.store, c1.nextId)
                  IN  Response(201, serialize(c.product),
                               Some([endpoint |-> "get_products", product_id |-> c.product.id]),
                               TRUE, FALSE, c.store, c.nextId)

\* create_products calling product.create() before product.deserialize(data)
create_products_create_first(req, st, nid) ==
    IF ~check_content_type(req.ctype, JSON) THEN UnsupportedMediaType(JSON, st, nid)
    ELSE LET c == Product_create(NewProduct, st, nid)
             d == deserialize(c.product, req.data)
         IN  IF ~d.ok THEN BadRequest(d.field, FALSE, st, nid)
             ELSE Response(201, serialize(d.product),
                           Some([endpoint |-> "get_products", product_id |-> d.product.id]),
                           TRUE, FALSE, c.store, c.nextId)

\* POST /products
create_products(req, st, nid) ==
    IF ~check_content_type(req.ctype, JSON) THEN UnsupportedMediaType(JSON, st, nid)
    ELSE LET d == deserialize(NewProduct, req.data)
         IN  IF ~d.ok THEN BadRequest(d.field, FALSE, st, nid)
             ELSE LET c == Product_create(d.product, st, nid)
                  IN  Response(201, serialize(c.product),
                               Some([endpoint |-> "get_products", product_id |-> c.product.id]),
                               TRUE, FALSE, c.store, c.nextId)

\* a truthy query argument: supplied and not empty
Truthy(arg) == arg # None /\ arg[1] # << >>

\* list_products testing category before name
list_products_category_first(req, st, nid) ==
    LET ok(products) ==
            Response(200, {serialize(product) : product \in products},
                     None, FALSE, TRUE, st, nid)
    IN  IF Truthy(req.category)
             THEN LET g == getattr_Category(str_upper(req.category[1]))
                  IN  IF g.ok THEN ok(find_by_category(st, g.value))
                      ELSE ServerError("AttributeError", st, nid)
        ELSE IF Truthy(req.name) THEN ok(find_by_name(st, req.name[1]))
        ELSE IF Truthy(req.available)
             THEN LET b == str_to_bool(req.available[1])
                  IN  IF b.ok THEN ok(find_by_availability(st, b.value))
                      ELSE ServerError("ValueError", st, nid)
        ELSE ok(all(st))

\* GET /products
list_products(req, st, nid) ==
    LET ok(products) ==
            Response(200, {serialize(product) : product \in products},
                     None, FALSE, TRUE, st, nid)
    IN  IF Truthy(req.name) THEN ok(find_by_name(st, req.name[1]))
        ELSE IF Truthy(req.category)
             THEN LET g == getattr_Category(str_upper(req.category[1]))
                  IN  IF g.ok THEN ok(find_by_category(st, g.value))
                      ELSE ServerError("AttributeError", st, nid)
        ELSE IF Truthy(req.available)
             THEN LET b == str_to_bool(req.available[1])
                  IN  IF b.ok THEN ok(find_by_availability(st, b.value))
                      ELSE ServerError("ValueError", st, nid)
        ELSE ok(all(st))

\* GET /products/<product_id>
get_products(req, st, nid) ==
    LET product == find(st, req.id)
    IN  IF product = None THEN NotFound(req.id, st, nid)
        ELSE Response(200, serialize(product[1]), None, FALSE, TRUE, st, nid)

\* update_products reading and deserializing the body before the lookup
update_products_parse_first(req, st, nid) ==
    IF ~check_content_type(req.ctype, JSON) THEN UnsupportedMediaType(JSON, st, nid)
    ELSE LET d == deserialize(NewProduct, req.data)
             product == find(st, req.id)
         IN  IF ~d.ok THEN BadRequest(d.field, FALSE, st, nid)
             ELSE IF product = None THEN NotFound(req.id, st, nid)
             ELSE LET e == deserialize(product[1], req.data).product
                  IN  Response(200, serialize(e), None, TRUE, TRUE,
                               Product_update(e, st).store, nid)

\* update_products calling product.create() where product.update() belongs
update_products_insert(req, st, nid) ==
    IF ~check_content_type(req.ctype, JSON) THEN UnsupportedMediaType(JSON, st, nid)
    ELSE LET product == find(st, req.id)
         IN  IF product = None THEN NotFound(req.id, st, nid)
             ELSE LET d == deserialize(product[1], req.data)
                  IN  IF ~d.ok THEN BadRequest(d.field, TRUE, st, nid)
                      ELSE LET c == Product_create(d.product, st, nid)
                           IN  Response(200, serialize(c.product), None,
                                        TRUE, TRUE, c.store, c.nextId)

\* PUT /products/<product_id>
update_products(req, st, nid) ==
    IF ~check_content_type(req.ctype, JSON) THEN UnsupportedMediaType(JSON, st, nid)
    ELSE LET product == find(st, req.id)
         IN  IF product = None THEN NotFound(req.id, st, nid)
             ELSE LET d == deserialize(product[1], req.data)
                  IN  IF ~d.ok THEN BadRequest(d.field, TRUE, st, nid)
                      ELSE LET u == Product_update(d.product, st)
                           IN  IF u.raised THEN BadRequest("id", TRUE, st, nid)
                               ELSE Response(200, serialize(d.product), None,
                                             TRUE, TRUE, u.store, nid)

\* delete_product answering 204 without product.delete()
delete_product_keeps_row(req, st, nid) ==
    LET product == find(st, req.id)
    IN  IF product = None THEN NotFound(req.id, st, nid)
        ELSE Response(204, << >>, None, FALSE, TRUE, st, nid)

\* DELETE /products/<product_id>
delete_product(req, st, nid) ==
    LET product == find(st, req.id)
    IN  IF product = None THEN NotFound(req.id, st, nid)
        ELSE Response(204, << >>, None, FALSE, TRUE,
                      Product_delete(product[1], st), nid)

----------------------------------------------------------------------------
(* The requests of a run *)

Fedora      == <<"F","e","d","o","r","a">>
fedora      == <<"f","e","d","o","r","a">>
Hat         == <<"H","a","t">>
ARedHat     == <<"A"," ","r","e","d"," ","h","a","t">>
CLOTHS      == <<"C","L","O","T","H","S">>
FOOD        == <<"F","O","O","D">>
TOOLS       == <<"T","O","O","L","S">>

\* valid payloads; the second one carries a client-supplied id
PFedora == [name |-> Fedora, description |-> ARedHat, price |-> <<"1","2",".","5","0">>,
            available |-> "true", category |-> CLOTHS]
PLower  == [id |-> 1, name |-> fedora, description |-> << >>, price |-> <<"3">>,
            available |-> "false", category |-> FOOD]
ValidPayloads == {PFedora, PLower}

\* invalid payloads: no name, a number for available, an unknown category,
\* a price that is no number
PNoName       == [description |-> <<"x">>, price |-> <<"1">>, available |-> "true"]
PBadAvailable == [PFedora EXCEPT !.available = "10"]
PBadCategory  == [PFedora EXCEPT !.category = <<"B","O","G","U","S">>]
PBadPrice     == [PFedora EXCEPT !.price = <<"a","b","c">>]
Payloads == ValidPayloads \cup {PNoName, PBadAvailable, PBadCategory, PBadPrice}

\* the Content-Type header: absent, the required one, and one that only starts with it
ContentTypes == {None, Some(JSON), Some("application/json; charset=utf-8")}

\* product ids a request names
Ids == 1 .. MaxCreates

\* query arguments: absent, empty, and two values each
NameArgs      == {None, Some(<< >>), Some(Fedora), Some(fedora)}
CategoryArgs  == {None, Some(<< >>), Some(<<"f","o","o","d">>), Some(<<"B","o","g","u","s">>)}
AvailableArgs == {None, Some(<< >>), Some(<<"Y","e","s">>), Some(<<"m","a","y","b","e">>)}

\* arguments of find_by_price: text or a decimal
PriceText(text) == [isStr |-> TRUE, text |-> text, dec |-> [c |-> 0, e |-> 0]]
PriceDec(c, e)  == [isStr |-> FALSE, text |-> << >>, dec |-> [c |-> c, e |-> e]]
PriceDecs == {[c |-> 125, e |-> 1], [c |-> 1250, e |-> 2], [c |-> 3, e |-> 0],
              [c |-> 30, e |-> 1], [c |-> 125, e |-> 2]}
PriceArgs == {PriceDec(d.c, d.e) : d \in PriceDecs} \cup
             {PriceText(<<"1","2",".","5">>), PriceText(<<"3",".","0">>),
              PriceText(<<"1",".","2","5">>)}

\* ids of the in-memory entities update() is called on: the id of a stored
\* product, kept or set to None or 0
EntityIds == {None, Some(0)} \cup {Some(r.id) : r \in store}

----------------------------------------------------------------------------
(* Actions: one per request *)

HttpResponse(r) ==
    [status |-> r.status, body |-> r.body, location |-> r.location,
     parsed |-> r.parsed, queried |-> r.queried]

\* f without the key k, and f with v at the key k
Without(f, k) == [x \in DOMAIN f \ {k} |-> f[x]]
With(f, k, v) == [x \in DOMAIN f \cup {k} |-> IF x = k THEN v ELSE f[x]]

Serve(req, r) ==
    /\ store' = r.store
    /\ nextId' = r.nextId
    /\ last' = [req |-> req, resp |-> HttpResponse(r), before |-> store]
    /\ created' = IF req.op = "POST" /\ r.status = 201
                  THEN Append(created, r.body.id)
                  ELSE created
    /\ written' =
         IF req.op = "POST" /\ r.status = 201 /\ r.body.id # None
            THEN With(written, r.body.id[1], req.data)
         ELSE IF req.op = "PUT" /\ r.status = 200 THEN With(written, req.id, req.data)
         ELSE IF req.op = "DELETE" /\ r.status = 204 THEN Without(written, req.id)
         ELSE written

CreateProducts ==
    /\ nextId <= MaxCreates
    /\ \E ctype \in ContentTypes, data \in Payloads :
        LET req == [op |-> "POST", ctype |-> ctype, data |-> data]
        IN  Serve(req, create_products(req, store, nextId))

ListProducts ==
    \E name \in NameArgs, category \in CategoryArgs, available \in AvailableArgs :
        LET req == [op |-> "LIST", name |-> name, category |-> category,
                    available |-> available]
        IN  Serve(req, list_products(req, store, nextId))

GetProducts ==
    \E id \in Ids :
        LET req == [op |-> "GET", id |-> id]
        IN  Serve(req, get_products(req, store, nextId))

UpdateProducts ==
    \E id \in Ids, ctype \in ContentTypes, data \in Payloads :
        LET req == [op |-> "PUT", id |-> id, ctype |-> ctype, data |-> data]
        IN  Serve(req, update_products(req, store, nextId))

DeleteProduct ==
    \E id \in Ids :
        LET req == [op |-> "DELETE", id |-> id]
        IN  Serve(req, delete_product(req, store, nextId))

\* product.update() on an in-memory entity
ProductUpdate ==
    \E data \in ValidPayloads, oid \in EntityIds :
        LET product == [deserialize(NewProduct, data).product EXCEPT !.id = oid]
            u == Product_update(product, store)
        IN  /\ store' = u.store
            /\ last' = [req |-> [op |-> "update", product |-> product],
                        resp |-> [raised |-> u.raised], before |-> store]
            /\ written' = IF ~u.raised /\ u.store # store
                           THEN With(written, oid[1], data)
                           ELSE written
            /\ UNCHANGED <<nextId, created>>

\* the finders of the data-access layer
Find(op, arg, products) ==
    /\ last' = [req |-> [op |-> op, arg |-> arg], resp |-> [body |-> products],
                before |-> store]
    /\ UNCHANGED <<store, nextId, created, written>>

FindByName == \E name \in {Fedora, fedora, Hat} :
    Find("find_by_name", name, find_by_name(store, name))
FindByCategory == \E category \in {CLOTHS, FOOD, TOOLS} :
    Find("find_by_category", category, find_by_category(store, category))
FindByAvailability == \E available \in BOOLEAN :
    Find("find_by_availability", available, find_by_availability(store, available))
FindByPrice == \E price \in PriceArgs :
    Find("find_by_price", price, find_by_price(store, price))

Init ==
    /\ store = {}
    /\ nextId = 1
    /\ created = << >>
    /\ written = << >>
    /\ last = [req |-> [op |-> "none"], resp |-> [status |-> 0], before |-> {}]

Next ==
    \/ CreateProducts
    \/ ListProducts
    \/ GetProducts
    \/ UpdateProducts
    \/ DeleteProduct
    \/ ProductUpdate
    \/ FindByName
    \/ FindByCategory
    \/ FindByAvailability
    \/ FindByPrice

Spec == Init /\ [][Next]_vars

----------------------------------------------------------------------------
(* Properties.  Each reads the last request, its response, the table      *)
(* before it (last.before) and the table after it (store).                 *)

Req    == last.req
Resp   == last.resp
Before == last.before

RowsWith(rows, id) == {r \in rows : r.id = id}
RowsBut(rows, id)  == {r \in rows : r.id # id}

\* the serialized rows, as a response body lists them
ListOf(rows) == {serialize(EntityOf(r)) : r \in rows}

\* a stored row, and a serialized product, hold the fields of a payload
RowMatches(r, data) ==
    /\ r.name = data.name
    /\ r.description = data.description
    /\ DecimalEq(r.price, DecimalOf(data.price))
    /\ r.available = (data.available = "true")
    /\ r.category = data.category
BodyMatches(body, data) ==
    /\ body.name = data.name
    /\ body.description = data.description
    /\ DecimalOf(body.price).ok
    /\ DecimalEq(DecimalOf(body.price), DecimalOf(data.price))
    /\ body.available = (data.available = "true")
    /\ body.category = data.category

\* C1: DELETE /products/{id} answers 204 with an empty body for every id,
\* stored or not, and leaves no row with that id.
C1_DeleteIdempotent ==
    Req.op = "DELETE" =>
        /\ Resp.status = 204
        /\ Resp.body = << >>
        /\ RowsWith(store, Req.id) = {}

\* C2: GET /products/{id}, and PUT /products/{id} sent as application/json,
\* for an id with no stored product, answer 404 with a message that holds
\* the id, without deserializing the body, and leave the table as it was.
C2_NotFound ==
    (/\ Req.op = "GET" \/ (Req.op = "PUT" /\ Req.ctype = Some(JSON))
     /\ RowsWith(Before, Req.id) = {})
    => /\ Resp.status = 404
       /\ Resp.body.id = Req.id
       /\ ~Resp.parsed
       /\ store = Before

\* a PUT as application/json to an id that was created and then deleted
C2_Witness ==
    /\ Req.op = "PUT" /\ Req.ctype = Some(JSON)
    /\ Some(Req.id) \in {created[i] : i \in DOMAIN created}
    /\ RowsWith(Before, Req.id) = {}
    /\ Resp.status = 404
    /\ store # {}

\* C3: POST /products and PUT /products/{id} without a Content-Type header,
\* or with one that is not exactly application/json, answer 415 naming the
\* required type, before the body is parsed and before the table is read or
\* written; so a PUT to an id that is not stored answers 415, not 404.
C3_UnsupportedMediaType ==
    (Req.op \in {"POST", "PUT"} /\ Req.ctype # Some(JSON))
    => /\ Resp.status = 415
       /\ Resp.body.content_type = JSON
       /\ ~Resp.parsed
       /\ ~Resp.queried
       /\ store = Before

\* a PUT to an id that is not stored, with a type that only starts with
\* application/json
C3_Witness ==
    /\ Req.op = "PUT"
    /\ Req.ctype = Some("application/json; charset=utf-8")
    /\ RowsWith(Before, Req.id) = {}
    /\ Before # {}
    /\ Resp.status = 415

\* what each filter of GET /products has to list
NameFilter(rows, name) == ListOf({r \in rows : r.name = name})
CategoryFilter(rows, name) == ListOf({r \in rows : r.category = str_upper(name)})
AvailableFilter(rows, text) == ListOf({r \in rows : r.available = (str_lower(text) \in bool_true)})
Lists(body) == Resp.status = 200 /\ Resp.body = body /\ store = Before

\* C4 as stated: a parameter that is supplied, even with an empty value, is
\* honored: name before category before available, else every product.
C4_SuppliedPrecedence ==
    Req.op = "LIST" =>
        IF Req.name # None THEN Lists(NameFilter(Before, Req.name[1]))
        ELSE IF Req.category # None
             THEN str_upper(Req.category[1]) \in Category
                    => Lists(CategoryFilter(Before, Req.category[1]))
        ELSE IF Req.available # None
             THEN str_lower(Req.available[1]) \in bool_true \cup bool_false
                    => Lists(AvailableFilter(Before, Req.available[1]))
        ELSE Lists(ListOf(Before))

\* C4, amended: a parameter counts only with a non-empty value.  The first
\* of name, category, available that has one decides the result alone, and
\* the later ones are not validated; a category that names no member, or an
\* available value str_to_bool rejects, fails the request; with no
\* non-empty parameter every product is listed.
C4_NonEmptyPrecedence ==
    Req.op = "LIST" =>
        IF Req.name \notin {None, Some(<< >>)}
        THEN Lists(NameFilter(Before, Req.name[1]))
        ELSE IF Req.category \notin {None, Some(<< >>)}
             THEN IF str_upper(Req.category[1]) \in Category
                  THEN Lists(CategoryFilter(Before, Req.category[1]))
                  ELSE Resp.status = 500 /\ store = Before
        ELSE IF Req.available \notin {None, Some(<< >>)}
             THEN IF str_lower(Req.available[1]) \in bool_true \cup bool_false
                  THEN Lists(AvailableFilter(Before, Req.available[1]))
                  ELSE Resp.status = 500 /\ store = Before
        ELSE Lists(ListOf(Before))

\* an empty name with a category: the category filter decides, and keeps
\* some products and drops others
C4_Witness ==
    /\ Req.op = "LIST"
    /\ Req.name = Some(<< >>)
    /\ Req.category = Some(<<"f","o","o","d">>)
    /\ Resp.status = 200
    /\ Resp.body # {}
    /\ Resp.body # ListOf(store)

\* C5: every successful POST /products adds exactly one row and gives the
\* entity an id that is not None; the ids the creates returned are pairwise
\* distinct, also when the same payload is created twice.
C5_CreateUniqueness ==
    /\ \A i \in DOMAIN created : created[i] # None
    /\ \A i, j \in DOMAIN created : i # j => created[i] # created[j]
    /\ (Req.op = "POST" /\ Resp.status = 201) =>
          /\ Resp.body.id # None
          /\ Before \subseteq store
          /\ Cardinality(store) = Cardinality(Before) + 1
          /\ \E r \in store \ Before : Some(r.id) = Resp.body.id

\* the same payload created twice: two rows that differ in the id alone
C5_Witness ==
    /\ Req.op = "POST" /\ Resp.status = 201
    /\ Len(created) >= 2
    /\ \E r1, r2 \in store :
          /\ r1.id # r2.id
          /\ Some(r2.id) = Resp.body.id
          /\ r1 = [r2 EXCEPT !.id = r1.id]

\* C6: a POST /products with a valid payload answers 201 with the assigned
\* id in the body, a Location for that id and the submitted fields; as long
\* as that id is neither updated nor deleted, GET /products/{id} answers 200
\* with the same name, description, price, available and category.
C6_CreateThenRead ==
    /\ (Req.op = "POST" /\ Resp.status = 201) =>
          /\ Resp.body.id # None
          /\ Resp.location = Some([endpoint |-> "get_products", product_id |-> Resp.body.id])
          /\ BodyMatches(Resp.body, Req.data)
    /\ \A id \in DOMAIN written :
          LET g == get_products([op |-> "GET", id |-> id], store, nextId)
          IN  /\ g.status = 200
              /\ g.body.id = Some(id)
              /\ BodyMatches(g.body, written[id])
    /\ (Req.op = "GET" /\ Req.id \in DOMAIN written) =>
          /\ Resp.status = 200
          /\ Resp.body.id = Some(Req.id)
          /\ BodyMatches(Resp.body, written[Req.id])

\* a GET of a created product, after another product was created as well
C6_Witness ==
    /\ Req.op = "GET" /\ Resp.status = 200
    /\ Req.id = 1 /\ written[1] = PFedora
    /\ Len(created) = 2
    /\ Cardinality(store) = 2
    /\ Resp.body.price = <<"1","2",".","5","0">>

\* C7: a successful DELETE of a stored id removes that row and no other:
\* listing all products gives the products stored before but that one, each
\* with its fields unchanged, so one product fewer.
C7_DeleteRemovesOne ==
    (Req.op = "DELETE" /\ Resp.status = 204 /\ RowsWith(Before, Req.id) # {}) =>
        /\ store = RowsBut(Before, Req.id)
        /\ Cardinality(all(store)) = Cardinality(all(Before)) - 1
        /\ list_products([op |-> "LIST", name |-> None, category |-> None,
                          available |-> None], store, nextId).body
             = ListOf(RowsBut(Before, Req.id))

\* three products created, one deleted, two left
C7_Witness ==
    /\ Req.op = "DELETE" /\ Resp.status = 204
    /\ Cardinality(Before) = 3
    /\ Cardinality(store) = 2

\* C8: update() on an entity whose id is None or 0 raises
\* DataValidationError and leaves the table as it was, also when the entity
\* was persisted before its id was set to 0.
C8_UpdatePrecondition ==
    (Req.op = "update" /\ (Req.product.id = None \/ Req.product.id = Some(0))) =>
        /\ Resp.raised
        /\ store = Before

\* update() with the id set to 0 while products are stored
C8_Witness ==
    /\ Req.op = "update"
    /\ Req.product.id = Some(0)
    /\ Resp.raised
    /\ store # {}

\* C9: each finder returns exactly the products of all() whose field equals
\* the argument: the name as written, the category, the availability, the
\* price as a number; find_by_price gives the same result for a decimal and
\* for its text.
C9_FilterExactness ==
    /\ Req.op = "find_by_name" =>
          Resp.body = {p \in all(store) : p.name = Req.arg}
    /\ Req.op = "find_by_category" =>
          Resp.body = {p \in all(store) : p.category = Req.arg}
    /\ Req.op = "find_by_availability" =>
          Resp.body = {p \in all(store) : p.available = Req.arg}
    /\ Req.op = "find_by_price" =>
          Resp.body = {p \in all(store) :
                         DecimalEq(p.price, IF Req.arg.isStr THEN DecimalOf(Req.arg.text)
                                            ELSE Req.arg.dec)}
    /\ \A d \in PriceDecs :
          find_by_price(store, PriceText(DecimalStr(d)))
            = find_by_price(store, PriceDec(d.c, d.e))

\* find_by_price with a text whose digits differ from the stored price's:
\* some products match, some do not
C9_Witness ==
    /\ Req.op = "find_by_price"
    /\ Req.arg.isStr /\ Req.arg.text = <<"1","2",".","5">>
    /\ Resp.body # {}
    /\ Resp.body # all(store)

\* C10: stored ids are unique.  A successful update, by PUT or by update(),
\* overwrites the fields of the one row with that id, answers 200 with that
\* id, and leaves the number of rows and every other row as they were; an
\* id in the payload of a POST or PUT changes no stored id.
C10_IdImmutable ==
    /\ \A r1, r2 \in store : r1.id = r2.id => r1 = r2
    /\ (Req.op = "PUT" /\ Resp.status = 200) =>
          /\ Resp.body.id = Some(Req.id)
          /\ Cardinality(store) = Cardinality(Before)
          /\ RowsBut(store, Req.id) = RowsBut(Before, Req.id)
          /\ \A r \in RowsWith(store, Req.id) : RowMatches(r, Req.data)
          /\ RowsWith(store, Req.id) # {}
    /\ (Req.op = "update" /\ ~Resp.raised) =>
          /\ Cardinality(store) = Cardinality(Before)
          /\ RowsBut(store, Req.product.id[1]) = RowsBut(Before, Req.product.id[1])
          /\ RowsWith(store, Req.product.id[1]) = {RowOf(Req.product)}
    /\ (Req.op = "POST" /\ Resp.status = 201) =>
          /\ Before \subseteq store
          /\ \A r \in Before : Some(r.id) # Resp.body.id

\* a PUT to id 2 whose payload carries id 1, while a product 1 is stored
C10_Witness ==
    /\ Req.op = "PUT" /\ Resp.status = 200
    /\ Req.id = 2
    /\ "id" \in DOMAIN Req.data /\ Req.data.id = 1
    /\ RowsWith(store, 1) # {}
    /\ RowsWith(Before, 2) # RowsWith(store, 2)

====
